---- MODULE Spec2Model ----
(***************************************************************************)
(* Model of src/utils/text.rs: get_cursor_position, title_spans,           *)
(* first_similarity and wrap_once.  Each behaviour is one call: Init draws *)
(* the function and its arguments, the actions run the function's body.    *)
(* Rust slices and vectors are sequences; Rust indices are 0-based, so     *)
(* words[i] is words[i + 1] here and words[a..b] is SubSeq(words, a+1, b). *)
(***************************************************************************)
EXTENDS Integers, Sequences, FiniteSets, TLC

VARIABLES pc, call, frame, result

vars == <<pc, call, frame, result>>

\* ---------------------------------------------------------------- bounds
MaxStrLen == 2
MaxPossibilities == 2
MaxTextLen == 3
MaxSegments == 2
MaxWords == 3
MaxWordWidth == 2
MaxLineWidths == 2
MaxLineWidth == 3

\* ---------------------------------------------------------------- helpers
SeqsUpTo(S, n) == UNION {[1..k -> S] : k \in 0..n}

RECURSIVE Sum(_)
Sum(s) == IF s = <<>> THEN 0 ELSE s[1] + Sum(Tail(s))

\* Option<T>
None == [some |-> FALSE]
Some(x) == [some |-> TRUE, value |-> x]

\* ------------------------------------------------- get_cursor_position
\* A text is its sequence of extended grapheme clusters.  A cluster is the
\* UTF-8 byte length of each of its characters plus its display width.
Clusters ==
    { [chars |-> <<1>>,    width |-> 1],    \* "a"
      [chars |-> <<3>>,    width |-> 2],    \* a CJK ideograph
      [chars |-> <<1, 2>>, width |-> 1],    \* "e" + U+0301 combining acute
      [chars |-> <<3>>,    width |-> 0],    \* U+200B zero width space
      [chars |-> <<4, 4>>, width |-> 2] }   \* two regional indicators (a flag)

ByteLen(cluster) == Sum(cluster.chars)

\* str::len(): the byte length of the text
StrLen(text) == Sum([i \in 1..Len(text) |-> ByteLen(text[i])])

\* byte offset at which cluster i (1-based) starts
ClusterOffset(text, i) == StrLen(SubSeq(text, 1, i - 1))

\* byte offsets on which a character starts, and the end of the text
CharBoundaries(text) ==
    {StrLen(text)} \cup
    UNION { { ClusterOffset(text, i) + Sum(SubSeq(text[i].chars, 1, k - 1)) :
                k \in 1..Len(text[i].chars) } : i \in 1..Len(text) }

ClusterStarts(text) == { ClusterOffset(text, i) : i \in 1..Len(text) }

\* str.grapheme_indices(true): (offset, cluster) pairs in order
grapheme_indices(text) ==
    [i \in 1..Len(text) |-> [offset |-> ClusterOffset(text, i), cluster |-> text[i]]]

\* Iterator::take_while(|(offset, _)| *offset != pos)
RECURSIVE take_while_not_pos(_, _)
take_while_not_pos(items, pos) ==
    IF items = <<>> \/ ~(items[1].offset # pos)
    THEN <<>>
    ELSE <<items[1]>> \o take_while_not_pos(Tail(items), pos)

\* UnicodeWidthStr::width of a cluster
cluster_width(cluster) == cluster.width

get_cursor_position_bytes(line_buffer) == line_buffer.pos

get_cursor_position(line_buffer) ==
    LET taken == take_while_not_pos(grapheme_indices(line_buffer.buf), line_buffer.pos)
    IN  Sum([i \in 1..Len(taken) |-> cluster_width(taken[i].cluster)])

LineBuffers ==
    UNION { { [buf |-> t, pos |-> p] : p \in CharBoundaries(t) } :
            t \in SeqsUpTo(Clusters, MaxTextLen) }

\* ---------------------------------------------------------- title_spans
\* tui::style::Style values: the default one and the caller's emphasis styles
DefaultStyle == "default"
Styles == {DefaultStyle, "red_bold"}

\* Span::raw and Span::styled
SpanRaw(content) == [content |-> content, style |-> DefaultStyle]
SpanStyled(content, style) == [content |-> content, style |-> style]

\* enum TitleStyle
Combined(title, value) == [kind |-> "Combined", title |-> title, value |-> value]
Single(value) == [kind |-> "Single", value |-> value]
Custom(span) == [kind |-> "Custom", span |-> span]

Texts == {"Time", "Some time"}
TitleStyles ==
    { Combined(t, v) : t \in Texts, v \in Texts }
    \cup { Single(v) : v \in Texts }
    \cup { Custom(sp) : sp \in {SpanStyled("Time", "red_bold"), SpanStyled("Some time", DefaultStyle)} }

first_bracket_no_space(i) == SpanRaw("[ ")

\* Span::raw(format!("{}[ ", if i == 0 { "" } else { " " })), i 0-based
first_bracket(i) == SpanRaw((IF i = 0 THEN "" ELSE " ") \o "[ ")

\* the match arms: the three spans of one item
item_spans(i, item, style) ==
    CASE item.kind = "Combined" ->
           << first_bracket(i),
              SpanStyled(item.title, style),
              SpanRaw(": " \o item.value \o " ]") >>
      [] item.kind = "Single" ->
           << first_bracket(i), SpanStyled(item.value, style), SpanRaw(" ]") >>
      [] item.kind = "Custom" ->
           << first_bracket(i), item.span, SpanRaw(" ]") >>

\* the for loop: complete.extend(...) for items i.. of contents (i 0-based)
RECURSIVE title_spans_from(_, _, _, _)
title_spans_from(complete, i, contents, style) ==
    IF i = Len(contents)
    THEN complete
    ELSE title_spans_from(complete \o item_spans(i, contents[i + 1], style),
                          i + 1, contents, style)

title_spans(contents, style) == title_spans_from(<<>>, 0, contents, style)

\* ----------------------------------------------------- first_similarity
\* A String is its sequence of (one-byte) characters.
Chars == {"a", "b"}
Strings == SeqsUpTo(Chars, MaxStrLen)

\* str::starts_with
starts_with(s, search) ==
    /\ Len(search) <= Len(s)
    /\ SubSeq(s, 1, Len(search)) = search

\* <[T]>::first
first(v) == IF v = <<>> THEN None ELSE Some(v[1])

longer_or_equal(res, search) == Len(res) >= Len(search)

\* result.len() > search.len()
longer(res, search) == Len(res) > Len(search)

first_similarity(possibilities, search) ==
    LET filtered == SelectSeq(possibilities, LAMBDA s : starts_with(s, search))
        fst == first(filtered)
    IN  IF fst.some
        THEN IF longer(fst.value, search) THEN Some(fst.value) ELSE None
        ELSE None

\* ------------------------------------------------------------ wrap_once
\* A textwrap Word, reduced to what wrap_once reads: its width.
Words == { [width |-> w] : w \in 0..MaxWordWidth }

\* Fragment::width
word_width(word) == word.width

\* &words[a..b]
Slice(words, a, b) == SubSeq(words, a + 1, b)

default_line_width_unconstrained(line_widths) ==
    IF line_widths = <<>> THEN MaxWords * MaxWordWidth + 1
    ELSE line_widths[Len(line_widths)]

\* line_widths.last().copied().unwrap_or(0)
default_line_width(line_widths) ==
    IF line_widths = <<>> THEN 0 ELSE line_widths[Len(line_widths)]

line_width_last(lines, line_widths) == default_line_width(line_widths)

\* line_widths.get(lines.len()).copied().unwrap_or(default_line_width)
line_width_at(lines, line_widths) ==
    IF Len(lines) < Len(line_widths)
    THEN line_widths[Len(lines) + 1]
    ELSE default_line_width(line_widths)

overflows_anywhere(width, word, line_width, idx, start) ==
    width + word_width(word) > line_width

overflows_or_fills(width, word, line_width, idx, start) ==
    width + word_width(word) >= line_width /\ idx > start

\* width + word.width() > line_width && idx > start
overflows(width, word, line_width, idx, start) ==
    width + word_width(word) > line_width /\ idx > start

\* the locals on entry to the for loop
EntryFrame == [lines |-> <<>>, start |-> 0, width |-> 0, idx |-> 0, broke |-> FALSE]

\* one iteration of the for loop, on word idx
loop_body(f, words, line_widths) ==
    LET word == words[f.idx + 1]
        line_width == line_width_at(f.lines, line_widths)
    IN  IF overflows(f.width, word, line_width, f.idx, f.start)
        THEN [f EXCEPT !.lines = Append(f.lines, Slice(words, f.start, f.idx)),
                       !.start = f.idx,
                       !.broke = TRUE]
        ELSE [f EXCEPT !.width = f.width + word_width(word),
                       !.idx = f.idx + 1]

loop_done(f, words) == f.broke \/ f.idx = Len(words)

\* lines.push(&words[start..]); lines
push_rest(f, words) == Append(f.lines, Slice(words, f.start, Len(words)))

RECURSIVE run_loop(_, _, _)
run_loop(f, words, line_widths) ==
    IF loop_done(f, words) THEN f
    ELSE run_loop(loop_body(f, words, line_widths), words, line_widths)

wrap_once(words, line_widths) ==
    push_rest(run_loop(EntryFrame, words, line_widths), words)

\* ---------------------------------------------------------------- calls
GetCursorPositionCalls ==
    { [fn |-> "get_cursor_position", line_buffer |-> lb] : lb \in LineBuffers }

TitleSpansCalls ==
    { [fn |-> "title_spans", contents |-> c, style |-> st] :
        c \in SeqsUpTo(TitleStyles, MaxSegments), st \in Styles }

FirstSimilarityCalls ==
    { [fn |-> "first_similarity", possibilities |-> p, search |-> s] :
        p \in SeqsUpTo(Strings, MaxPossibilities), s \in Strings }

LineWidthSeqs == SeqsUpTo(0..MaxLineWidth, MaxLineWidths)

WrapOnceCalls ==
    { [fn |-> "wrap_once", words |-> w, line_widths |-> lw] :
        w \in SeqsUpTo(Words, MaxWords), lw \in LineWidthSeqs }

NoFrame == [active |-> FALSE]
NoResult == [pending |-> TRUE]

Init ==
    /\ pc = "start"
    /\ \/ call \in GetCursorPositionCalls
       \/ call \in TitleSpansCalls
       \/ call \in FirstSimilarityCalls
       \/ call \in WrapOnceCalls
    /\ frame = NoFrame
    /\ result = NoResult

GetCursorPosition ==
    /\ pc = "start"
    /\ call.fn = "get_cursor_position"
    /\ result' = get_cursor_position(call.line_buffer)
    /\ pc' = "done"
    /\ UNCHANGED <<call, frame>>

TitleSpans ==
    /\ pc = "start"
    /\ call.fn = "title_spans"
    /\ result' = title_spans(call.contents, call.style)
    /\ pc' = "done"
    /\ UNCHANGED <<call, frame>>

FirstSimilarity ==
    /\ pc = "start"
    /\ call.fn = "first_similarity"
    /\ result' = first_similarity(call.possibilities, call.search)
    /\ pc' = "done"
    /\ UNCHANGED <<call, frame>>

\* wrap_once, lines 67-70: the locals are set up
WrapOnceEnter ==
    /\ pc = "start"
    /\ call.fn = "wrap_once"
    /\ frame' = EntryFrame
    /\ pc' = "loop"
    /\ UNCHANGED <<call, result>>

\* wrap_once, lines 72-85: one iteration of the for loop
WrapOnceIter ==
    /\ pc = "loop"
    /\ ~loop_done(frame, call.words)
    /\ frame' = loop_body(frame, call.words, call.line_widths)
    /\ UNCHANGED <<pc, call, result>>

\* wrap_once, lines 87-89: after the loop (exhausted or broken out of)
WrapOnceReturn ==
    /\ pc = "loop"
    /\ loop_done(frame, call.words)
    /\ result' = push_rest(frame, call.words)
    /\ pc' = "done"
    /\ UNCHANGED <<call, frame>>

Next ==
    \/ GetCursorPosition
    \/ TitleSpans
    \/ FirstSimilarity
    \/ WrapOnceEnter
    \/ WrapOnceIter
    \/ WrapOnceReturn

Spec == Init /\ [][Next]_vars

\* =================================================================
\* Properties
\* =================================================================
Returned(fn) == pc = "done" /\ call.fn = fn

\* ---- first_similarity
Qualifies(s, search) == starts_with(s, search) /\ Len(s) > Len(search)

\* C1: first_similarity returns the first candidate, in list order, that
\* starts with the search string and is strictly longer than it, and None
\* only when no candidate satisfies both (an earlier candidate equal to the
\* search string does not hide a later, longer one).
C1_FirstQualifyingCandidate ==
    Returned("first_similarity") =>
        LET q == SelectSeq(call.possibilities, LAMBDA s : Qualifies(s, call.search))
        IN  result = IF q = <<>> THEN None ELSE Some(q[1])

\* C2: with an empty search string, first_similarity returns the first
\* non-empty candidate whenever the list holds one, also when an empty
\* string precedes it.
C2_EmptySearchFirstNonEmpty ==
    (Returned("first_similarity") /\ call.search = <<>>) =>
        LET nonEmpty == SelectSeq(call.possibilities, LAMBDA s : s # <<>>)
        IN  nonEmpty # <<>> => result = Some(nonEmpty[1])

TotalWidth(ws) == Sum([i \in 1..Len(ws) |-> ws[i].width])

\* the 0-based indices i >= 1 at which words[0..=i] is wider than W
BreakPoints(words, W) ==
    { i \in 1..(Len(words) - 1) : TotalWidth(SubSeq(words, 1, i + 1)) > W }

Min(S) == CHOOSE x \in S : \A y \in S : x <= y

\* the split at the first break point, or the single group
SplitAtFirstBreak(words, W) ==
    IF BreakPoints(words, W) = {}
    THEN << words >>
    ELSE LET b == Min(BreakPoints(words, W))
         IN  << SubSeq(words, 1, b), SubSeq(words, b + 1, Len(words)) >>

\* C4: with a non-empty width sequence, the first group of wrap_once fits
\* in line_widths[0] unless it is exactly one word, and it is not empty
\* when the input is not empty.
C4_FirstGroupFits ==
    (Returned("wrap_once") /\ call.line_widths # <<>>) =>
        /\ Len(result) >= 1
        /\ TotalWidth(result[1]) <= call.line_widths[1] \/ Len(result[1]) = 1
        /\ call.words # <<>> => result[1] # <<>>

\* a first word wider than the target is alone on line one, and a second
\* group follows
C4_Witness ==
    /\ Returned("wrap_once")
    /\ call.line_widths # <<>>
    /\ Len(result) = 2
    /\ Len(result[1]) = 1
    /\ TotalWidth(result[1]) > call.line_widths[1]

\* C5 (as stated): with an empty width sequence wrap_once returns exactly
\* one group holding all the words.
C5_EmptyWidthsSingleLine ==
    (Returned("wrap_once") /\ call.line_widths = <<>>) => result = << call.words >>

\* C5 (amended): with an empty width sequence wrap_once wraps to width 0:
\* it splits before the first word i >= 1 at which the words so far have a
\* positive total width, and returns one group only when there is no such
\* word.
C5_EmptyWidthsWrapToZero ==
    (Returned("wrap_once") /\ call.line_widths = <<>>) =>
        result = SplitAtFirstBreak(call.words, 0)

C5_Witness ==
    /\ Returned("wrap_once")
    /\ call.line_widths = <<>>
    /\ Len(call.words) >= 2
    /\ Len(result) = 2

\* C9: with a non-empty width sequence of first width W, wrap_once returns
\* one or two groups whose concatenation is the input; with b the smallest
\* i >= 1 at which words[0..=i] is wider than W the result is
\* [words[0..b), words[b..]], the second group unsplit, and without such b
\* it is the single group [words].
C9_SplitAtFirstOverflow ==
    (Returned("wrap_once") /\ call.line_widths # <<>>) =>
        /\ Len(result) \in {1, 2}
        /\ (IF Len(result) = 1 THEN result[1] ELSE result[1] \o result[2]) = call.words
        /\ result = SplitAtFirstBreak(call.words, call.line_widths[1])

\* a remainder of several words, each fitting the target alone and together
\* wider than it, left in one group
C9_Witness ==
    /\ Returned("wrap_once")
    /\ call.line_widths # <<>>
    /\ Len(result) = 2
    /\ Len(result[2]) >= 2
    /\ \A i \in 1..Len(result[2]) :
          result[2][i].width > 0 /\ result[2][i].width <= call.line_widths[1]
    /\ TotalWidth(result[2]) > call.line_widths[1]

\* C10: the result of wrap_once depends on a non-empty width sequence only
\* through its first element: every width sequence with the same element 0
\* gives the same groups, and the lookup in the loop always sees zero lines.
C10_OnlyFirstWidthMatters ==
    /\ (pc = "loop" /\ ~loop_done(frame, call.words)) => Len(frame.lines) = 0
    /\ (Returned("wrap_once") /\ call.line_widths # <<>>) =>
          \A other \in LineWidthSeqs :
              (other # <<>> /\ other[1] = call.line_widths[1]) =>
                  wrap_once(call.words, other) = result

\* a call that split the words under widths whose later elements differ
\* from the first
C10_Witness ==
    /\ Returned("wrap_once")
    /\ Len(call.line_widths) >= 2
    /\ call.line_widths[Len(call.line_widths)] > call.line_widths[1]
    /\ Len(result) = 2

\* ---- get_cursor_position
\* C6: for offsets p <= q on character boundaries of the text (also inside
\* a cluster of several characters), get_cursor_position at p is <= that
\* at q.
C6_Monotonic ==
    Returned("get_cursor_position") =>
        \A q \in CharBoundaries(call.line_buffer.buf) :
            call.line_buffer.pos <= q =>
                result <= get_cursor_position([call.line_buffer EXCEPT !.pos = q])

RECURSIVE WidthOver(_, _)
WidthOver(text, I) ==
    IF I = {} THEN 0
    ELSE LET i == CHOOSE j \in I : TRUE
         IN  text[i].width + WidthOver(text, I \ {i})

\* C7: at a cursor offset that starts a cluster or is the text length,
\* get_cursor_position is the sum of the widths of the clusters starting
\* strictly before the offset: 0 at offset 0, the whole width at the end.
C7_SumOfWidthsBefore ==
    LET text == call.line_buffer.buf
        pos == call.line_buffer.pos
        before == { i \in 1..Len(text) : ClusterOffset(text, i) < pos }
    IN  (Returned("get_cursor_position") /\ pos \in ClusterStarts(text) \cup {StrLen(text)}) =>
            /\ result = WidthOver(text, before)
            /\ pos = 0 => result = 0
            /\ pos = StrLen(text) =>
                  result = Sum([i \in 1..Len(text) |-> text[i].width])

\* the cursor is between two clusters and the column differs from the offset
C7_Witness ==
    /\ Returned("get_cursor_position")
    /\ call.line_buffer.pos \in ClusterStarts(call.line_buffer.buf)
    /\ call.line_buffer.pos > 0
    /\ result # call.line_buffer.pos
    /\ result > 0

\* ---- title_spans
SegmentText(item) ==
    CASE item.kind = "Combined" -> item.title \o ": " \o item.value
      [] item.kind = "Single" -> item.value
      [] item.kind = "Custom" -> item.span.content

RECURSIVE Rendered(_)
Rendered(spans) == IF spans = <<>> THEN "" ELSE spans[1].content \o Rendered(Tail(spans))

RECURSIVE BracketRow(_)
BracketRow(contents) ==
    IF contents = <<>> THEN ""
    ELSE "[ " \o SegmentText(contents[1]) \o " ]"
         \o (IF Len(contents) = 1 THEN "" ELSE " ") \o BracketRow(Tail(contents))

\* C8: title_spans returns three spans per segment, in segment order: an
\* unstyled "[ " (first segment) or " [ " (later ones); the label
\* (Combined) or value (Single) in the emphasis style, or the caller's span
\* (Custom); an unstyled ": <value> ]" (Combined) or " ]".  The text reads
\* "[ seg1 ] [ seg2 ] ...".
C8_ThreeSpansPerSegment ==
    Returned("title_spans") =>
        /\ Len(result) = 3 * Len(call.contents)
        /\ \A n \in 1..Len(call.contents) :
              LET item == call.contents[n]
              IN  /\ result[3 * n - 2] =
                        [content |-> IF n = 1 THEN "[ " ELSE " [ ", style |-> DefaultStyle]
                  /\ result[3 * n - 1] =
                        CASE item.kind = "Combined" ->
                               [content |-> item.title, style |-> call.style]
                          [] item.kind = "Single" ->
                               [content |-> item.value, style |-> call.style]
                          [] item.kind = "Custom" -> item.span
                  /\ result[3 * n] =
                        [content |-> IF item.kind = "Combined"
                                     THEN ": " \o item.value \o " ]" ELSE " ]",
                         style |-> DefaultStyle]
        /\ Rendered(result) = BracketRow(call.contents)

\* a title of a Combined segment followed by a Custom one
C8_Witness ==
    /\ Returned("title_spans")
    /\ Len(call.contents) = 2
    /\ call.contents[1].kind = "Combined"
    /\ call.contents[2].kind = "Custom"
    /\ call.style # DefaultStyle
    /\ Len(result) = 6

====
